---- MODULE Spec2Model ----
(***************************************************************************)
(* Model of src/dsd.py, a Streamlit script that is executed top to bottom  *)
(* on every (re)run: load a table, normalise the column names, check the   *)
(* required columns, parse and sort by month, derive columns, and compute  *)
(* the four KPI cards.                                                     *)
(*                                                                         *)
(* The Korean column names of the source are written romanised, TLA+       *)
(* strings being ASCII:                                                    *)
(*   "wol" = 월 (period)            "maechulaek" = 매출액 (revenue)         *)
(*   "jeonnyeondongwol" = 전년동월   "jeunggamryul" = 증감률 (yoy percent)  *)
(*   "jeunggamaek" = 증감액 (delta)  "nujeokmaechul" = 누적매출 (cumulative)*)
(*   "wollabel" = 월라벨 (period label)                                     *)
(*                                                                         *)
(* A column label is a sequence of tokens, each either the blank SP or a   *)
(* word, so that str.strip() has something to remove.  A cell is a record  *)
(* [t, n, s]: t is the kind ("int", "str", "ts", "NaT", "NaN"), n the      *)
(* number (for "ts" the month ordinal year*12 + month-1, for the yoy       *)
(* column tenths of a percent), s the text.  A frame is                    *)
(* [columns |-> labels, rows |-> rows of cells], one cell per column.      *)
(***************************************************************************)
EXTENDS Integers, Sequences, FiniteSets, TLC

VARIABLES pc, uploaded, use_demo, argsort_ties, cache, df, rename_dict,
          missing, st_error, st_warning, metrics, max_idx, min_idx, exc,
          run, prev

vars == <<pc, uploaded, use_demo, argsort_ties, cache, df, rename_dict,
          missing, st_error, st_warning, metrics, max_idx, min_idx, exc,
          run, prev>>

\* ------------------------------------------------------------------ bounds
MaxRows == 2
MaxRuns == 2

\* ------------------------------------------------------------ small helpers
Range(f) == {f[i] : i \in DOMAIN f}

SP == " "

IntCell(k) == [t |-> "int", n |-> k, s |-> ""]
StrCell(x) == [t |-> "str", n |-> 0, s |-> x]
TsCell(y, m) == [t |-> "ts", n |-> y * 12 + (m - 1), s |-> ""]
NaT == [t |-> "NaT", n |-> 0, s |-> ""]
NaN == [t |-> "NaN", n |-> 0, s |-> ""]

Frame(cols, rws) == [columns |-> cols, rows |-> rws]

\* ------------------------------------------------------- str.strip (l.79)
RECURSIVE lstrip(_)
lstrip(c) == IF c # <<>> /\ Head(c) = SP THEN lstrip(Tail(c)) ELSE c

RECURSIVE rstrip(_)
rstrip(c) ==
    IF c # <<>> /\ c[Len(c)] = SP THEN rstrip(SubSeq(c, 1, Len(c) - 1)) ELSE c

strip(c) == rstrip(lstrip(c))

\* ------------------------------------------------------ colmap (l.69-74)
required == <<"wol", "maechulaek", "jeonnyeondongwol", "jeunggamryul">>

colmap ==
    [std \in Range(required) |->
        CASE std = "wol"              -> <<"wol", "month", "Month">>
          [] std = "maechulaek"       -> <<"maechulaek", "revenue", "Revenue">>
          [] std = "jeonnyeondongwol" -> <<"jeonnyeondongwol", "last_year", "PY">>
          [] std = "jeunggamryul"     -> <<"jeunggamryul", "yoy", "YoY">>]

\* variant: the label is compared as it is, without strip()
InAlts_unstripped(c, alts) == \E a \in Range(alts) : c = <<a>>

\* `c.strip() in alts` (l.79): the stripped label is one of the listed names
InAlts(c, alts) == \E a \in Range(alts) : strip(c) = <<a>>

\* variant: the inner loop without its break, so the last match stays
FirstMatch_nobreak(cols, alts) ==
    IF \E j \in DOMAIN cols : InAlts(cols[j], alts)
    THEN CHOOSE j \in DOMAIN cols :
            /\ InAlts(cols[j], alts)
            /\ \A k \in (j + 1)..Len(cols) : ~InAlts(cols[k], alts)
    ELSE 0

\* the inner loop with its break (l.78-81): the first column, in column
\* order, that matches; 0 when none does
FirstMatch(cols, alts) ==
    IF \E j \in DOMAIN cols : InAlts(cols[j], alts)
    THEN CHOOSE j \in DOMAIN cols :
            /\ InAlts(cols[j], alts)
            /\ \A k \in 1..(j - 1) : ~InAlts(cols[k], alts)
    ELSE 0

\* the dict built by the two loops (l.76-81), as a set of <<key, value>>
BuildRenameDict(cols) ==
    { <<cols[FirstMatch(cols, colmap[std])], std>> :
        std \in {s \in Range(required) : FirstMatch(cols, colmap[s]) # 0} }

\* df.rename(columns=rename_dict) (l.83): every column whose label is a key
\* takes the value as its label; the other labels are kept
Rename(cols, d) ==
    [j \in DOMAIN cols |->
        IF \E p \in d : p[1] = cols[j]
        THEN << (CHOOSE p \in d : p[1] = cols[j])[2] >>
        ELSE cols[j]]

\* variant: only the first missing name is reported
RECURSIVE MissingFrom_first(_, _)
MissingFrom_first(req, cols) ==
    IF req = <<>> THEN <<>>
    ELSE IF <<Head(req)>> \in Range(cols)
    THEN MissingFrom_first(Tail(req), cols)
    ELSE <<Head(req)>>

\* `c not in df.columns` for the required names, in their order (l.85)
RECURSIVE MissingFrom(_, _)
MissingFrom(req, cols) ==
    IF req = <<>> THEN <<>>
    ELSE (IF <<Head(req)>> \in Range(cols) THEN <<>> ELSE <<Head(req)>>)
            \o MissingFrom(Tail(req), cols)

\* ------------------------------------------------ frame access (pandas)
\* the positions of the columns carrying a label; df[name] is a Series when
\* there is exactly one and a DataFrame when there are several
ColIdx(f, name) == {j \in DOMAIN f.columns : f.columns[j] = <<name>>}

TheCol(f, name) == CHOOSE j \in ColIdx(f, name) : TRUE

Series(f, name) == [i \in DOMAIN f.rows |-> f.rows[i][TheCol(f, name)]]

\* df[name] = values: replaces the column when the label exists, appends a
\* new last column otherwise
SetCol(f, name, vals) ==
    IF ColIdx(f, name) # {}
    THEN Frame(f.columns,
               [i \in DOMAIN f.rows |->
                   [f.rows[i] EXCEPT ![TheCol(f, name)] = vals[i]]])
    ELSE Frame(Append(f.columns, <<name>>),
               [i \in DOMAIN f.rows |-> Append(f.rows[i], vals[i])])

IsNumeric(col) == \A i \in DOMAIN col : col[i].t = "int"

\* --------------------------------------- demo_dataframe (l.30-47)
DemoRow(m, rev, py, yoy) ==
    <<StrCell(m), IntCell(rev), IntCell(py), IntCell(yoy)>>

demo_data ==
    << DemoRow("2024-01", 12000000, 10500000, 143),
       DemoRow("2024-02", 13500000, 11200000, 205),
       DemoRow("2024-03", 11000000, 12800000, -141),
       DemoRow("2024-04", 18000000, 15200000, 184),
       DemoRow("2024-05", 21000000, 18500000, 135),
       DemoRow("2024-06", 19000000, 17000000, 118),
       DemoRow("2024-07", 23000000, 20000000, 150),
       DemoRow("2024-08", 22000000, 19500000, 128),
       DemoRow("2024-09", 25000000, 21000000, 190),
       DemoRow("2024-10", 26000000, 22500000, 156),
       DemoRow("2024-11", 28000000, 25000000, 120),
       DemoRow("2024-12", 24000000, 21000000, 143) >>

demo_dataframe ==
    Frame([j \in 1..4 |-> <<required[j]>>], demo_data)

\* ------------------------------------------------ the uploaded tables
\* Cell values of an uploaded CSV.  A month cell is text; a numeric cell is
\* an integer, or text when the file has something else there.
NumericRows ==
    { <<StrCell(r[1]), IntCell(r[2]), IntCell(15), IntCell(143)>> :
        r \in { <<"2024-01", 10>>, <<"2024-01", 20>>, <<"2024-02", 10>>,
                <<"2024-02", 20>>, <<"2024-03", 10>>, <<"not-a-date", 20>> } }

NonNumericRows ==
    { <<StrCell("not-a-date"), StrCell("abc"), IntCell(15), IntCell(143)>>,
      <<StrCell("2024-01"), IntCell(10), StrCell("n/a"), IntCell(143)>>,
      <<StrCell("2024-01"), IntCell(10), IntCell(15), StrCell("n/a")>> }

RawRows == NumericRows \cup NonNumericRows

\* tables with the canonical header and 0..MaxRows rows
RowTables ==
    { Frame([j \in 1..4 |-> <<required[j]>>], rws) :
        rws \in UNION { [1..n -> RawRows] : n \in 0..MaxRows } }

\* Headers.  For each field: the columns the file has for it (none, one or
\* two), written as labels; "period", "MONTH", "REVENUE" are labels that
\* are in no list of colmap.
Bare(std) == { << <<a>> >> : a \in Range(colmap[std]) }

PeriodHeaders ==
    {<<>>} \cup Bare("wol")
      \cup { << <<SP, "month">> >>, << <<SP, "wol", SP>> >>,
             << <<"period">> >>, << <<"MONTH">> >>,
             << <<"month">>, <<"wol">> >>, << <<"wol">>, <<"month">> >>,
             << <<"Month">>, <<"month">> >>, << <<SP, "wol">>, <<"wol">> >> }

RevenueHeaders ==
    {<<>>} \cup Bare("maechulaek")
      \cup { << <<"Revenue", SP>> >>, << <<"REVENUE">> >>,
             << <<"revenue">>, <<"maechulaek">> >>,
             << <<"maechulaek">>, <<"revenue">> >> }

PriorHeaders ==
    {<<>>} \cup Bare("jeonnyeondongwol") \cup { << <<SP, "PY", SP>> >> }

YoyHeaders ==
    {<<>>} \cup Bare("jeunggamryul")
      \cup { << <<"YoY", SP>> >>, << <<"yoy">>, <<"jeunggamryul">> >> }

\* the one row of a header table: a month text under the period columns,
\* integers under the others; the second column of a pair differs from the
\* first
HeaderCells(h, first, second) ==
    [k \in DOMAIN h |-> IF k = 1 THEN first ELSE second]

HeaderTables ==
    { Frame(hp \o hr \o hy \o hj,
            << HeaderCells(hp, StrCell("2024-01"), StrCell("2024-02"))
                 \o HeaderCells(hr, IntCell(10), IntCell(20))
                 \o HeaderCells(hy, IntCell(15), IntCell(15))
                 \o HeaderCells(hj, IntCell(143), IntCell(143)) >>) :
        hp \in PeriodHeaders, hr \in RevenueHeaders,
        hy \in PriorHeaders, hj \in YoyHeaders }

\* the worked examples: the three months out of order, the two-row table
\* with English headers, and the table with one month that is not a date
ExampleTables ==
    { Frame([j \in 1..4 |-> <<required[j]>>],
            << <<StrCell("2024-03"), IntCell(30), IntCell(15), IntCell(143)>>,
               <<StrCell("2024-01"), IntCell(10), IntCell(15), IntCell(143)>>,
               <<StrCell("2024-02"), IntCell(20), IntCell(15), IntCell(143)>> >>),
      Frame(<< <<"month">>, <<"Revenue">>, <<"PY">>, <<"YoY">> >>,
            << DemoRow("2024-01", 12000000, 10500000, 143),
               DemoRow("2024-02", 13500000, 11200000, 205) >>),
      Frame([j \in 1..4 |-> <<required[j]>>],
            << <<StrCell("2024-02"), IntCell(20), IntCell(15), IntCell(143)>>,
               <<StrCell("not-a-date"), IntCell(30), IntCell(15), IntCell(143)>>,
               <<StrCell("2024-01"), IntCell(10), IntCell(15), IntCell(143)>> >>) }

Uploads == RowTables \cup HeaderTables \cup ExampleTables

\* the table the run reads (l.60-63)
RawInput == IF uploaded # <<>> /\ ~use_demo THEN uploaded[1] ELSE demo_dataframe


\* ------------------------------------- pd.to_datetime / strftime (l.92, 106)
Years == 2020..2029
Months == 1..12

DigitText == <<"0", "1", "2", "3", "4", "5", "6", "7", "8", "9">>

\* the decimal text of k, zero-padded to w digits
RECURSIVE Digits(_, _)
Digits(k, w) ==
    IF w = 0 THEN "" ELSE Digits(k \div 10, w - 1) \o DigitText[(k % 10) + 1]

\* Timestamp.strftime("%Y-%m") of the first day of month m of year y
MonthText(y, m) == Digits(y, 4) \o "-" \o Digits(m, 2)

MonthTexts == { <<MonthText(y, m), y, m>> : y \in Years, m \in Months }

\* one value of pd.to_datetime(..., errors="coerce"): a YYYY-MM text is the
\* first day of that month, anything else that is not a date is NaT
to_datetime(cell) ==
    IF cell.t = "ts" THEN cell
    ELSE IF cell.t = "str" /\ \E e \in MonthTexts : e[1] = cell.s
    THEN LET e == CHOOSE e \in MonthTexts : e[1] = cell.s IN TsCell(e[2], e[3])
    ELSE NaT

\* one value of Series.dt.strftime("%Y-%m"): NaT gives NaN, nothing raises
strftime(cell) ==
    IF cell.t = "ts"
    THEN StrCell(MonthText(cell.n \div 12, (cell.n % 12) + 1))
    ELSE NaN

isna(cell) == cell.t \in {"NaT", "NaN"}

\* ------------------------------------------------- sort_values (l.99)
\* nargsort: the rows whose key is not NaT are argsorted by the key and the
\* NaT rows follow in their original order (na_position="last").  The sort
\* kind is the default "quicksort", which is not stable: which of two equal
\* keys comes first depends on the numpy build, and is the same every time on
\* one build.  ties = "stable" keeps them in input order, "reversed" swaps.
\* variant: descending order
KeyBefore_descending(keys, ties, i, j) ==
    \/ keys[i].n > keys[j].n
    \/ /\ keys[i].n = keys[j].n
       /\ IF ties = "stable" THEN i < j ELSE j < i

KeyBefore(keys, ties, i, j) ==
    \/ keys[i].n < keys[j].n
    \/ /\ keys[i].n = keys[j].n
       /\ IF ties = "stable" THEN i < j ELSE j < i

nargsort(keys, ties) ==
    LET nn    == {i \in DOMAIN keys : ~isna(keys[i])}
        nas   == {i \in DOMAIN keys : isna(keys[i])}
        rk(i) == IF i \in nn
                 THEN 1 + Cardinality({j \in nn : KeyBefore(keys, ties, j, i)})
                 ELSE Cardinality(nn) + 1
                        + Cardinality({j \in nas : j < i})
    IN  [p \in DOMAIN keys |-> CHOOSE i \in DOMAIN keys : rk(i) = p]

\* df.sort_values(name).reset_index(drop=True): the rows in the new order,
\* numbered 0.. again
sort_values(f, name, ties) ==
    LET indexer == nargsort(Series(f, name), ties)
    IN  Frame(f.columns, [p \in DOMAIN f.rows |-> f.rows[indexer[p]]])

\* ------------------------------------------------- derived columns
RECURSIVE SumN(_, _)
SumN(col, k) == IF k = 0 THEN 0 ELSE SumN(col, k - 1) + col[k].n

\* variant: the running sum without the current row
cumsum_exclusive(col) == [i \in DOMAIN col |-> IntCell(SumN(col, i - 1))]

\* Series.cumsum (l.103)
cumsum(col) == [i \in DOMAIN col |-> IntCell(SumN(col, i))]

\* Series - Series, elementwise (l.102)
subtract(a, b) == [i \in DOMAIN a |-> IntCell(a[i].n - b[i].n)]

\* variant: the last row holding the maximum
idxmax_last(col) ==
    (CHOOSE i \in DOMAIN col :
        /\ \A j \in DOMAIN col : col[j].n <= col[i].n
        /\ \A j \in (i + 1)..Len(col) : col[j].n < col[i].n) - 1

\* Series.idxmax / idxmin (l.117, 120) on the 0.. index left by reset_index:
\* the label of the first row holding the extreme value
idxmax(col) ==
    (CHOOSE i \in DOMAIN col :
        /\ \A j \in DOMAIN col : col[j].n <= col[i].n
        /\ \A j \in 1..(i - 1) : col[j].n < col[i].n) - 1

idxmin(col) ==
    (CHOOSE i \in DOMAIN col :
        /\ \A j \in DOMAIN col : col[j].n >= col[i].n
        /\ \A j \in 1..(i - 1) : col[j].n > col[i].n) - 1

\* df.loc[idx, name] on the 0.. index
loc(f, idx, name) == f.rows[idx + 1][TheCol(f, name)]


\* ------------------------------------------------------------ the script
NoFrame == Frame(<<>>, <<>>)

Metric(name, num, den, label) ==
    [name |-> name, n |-> num, d |-> den, label |-> label]

\* what one run leaves on the page and in df
Outcome ==
    [pc |-> pc, df |-> df, st_error |-> st_error, st_warning |-> st_warning,
     metrics |-> metrics, exc |-> exc]

\* The widget values of a session: the uploaded table (none: <<>>) and the
\* demo toggle.  The toggle only decides which table l.60-63 reads, so it is
\* switched on over no upload and over the example uploads, not over all.
Init ==
    /\ pc = "load"
    /\ uploaded \in {<<>>} \cup { <<t>> : t \in Uploads }
    /\ use_demo \in IF uploaded = <<>> \/ uploaded[1] \in ExampleTables
                    THEN BOOLEAN ELSE {FALSE}
    /\ argsort_ties \in {"stable", "reversed"}
    /\ cache = <<>>
    /\ df = NoFrame
    /\ rename_dict = {}
    /\ missing = <<>>
    /\ st_error = <<>>
    /\ st_warning = FALSE
    /\ metrics = <<>>
    /\ max_idx = -1
    /\ min_idx = -1
    /\ exc = ""
    /\ run = 1
    /\ prev = <<>>

\* an uncaught exception ends the run
Raise(e) ==
    /\ pc' = "crashed"
    /\ exc' = e

\* variant: df is kept from the previous run instead of being read again
Load_keeps_frame ==
    /\ pc = "load"
    /\ IF prev # <<>>
       THEN /\ df' = prev[1].df
            /\ UNCHANGED cache
       ELSE IF uploaded # <<>> /\ ~use_demo
       THEN /\ df' = uploaded[1]
            /\ UNCHANGED cache
       ELSE /\ cache' = <<demo_dataframe>>
            /\ df' = demo_dataframe
    /\ pc' = "normalize"
    /\ UNCHANGED <<uploaded, use_demo, argsort_ties, rename_dict, missing,
                   st_error, st_warning, metrics, max_idx, min_idx, exc,
                   run, prev>>

\* l.60-63: the uploaded file when there is one and the demo toggle is off,
\* else demo_dataframe(), whose value st.cache_data computes once and hands
\* out as a fresh copy on every call
Load ==
    /\ pc = "load"
    /\ IF uploaded # <<>> /\ ~use_demo
       THEN /\ df' = uploaded[1]
            /\ UNCHANGED cache
       ELSE IF cache = <<>>
       THEN /\ cache' = <<demo_dataframe>>
            /\ df' = demo_dataframe
       ELSE /\ df' = cache[1]
            /\ UNCHANGED cache
    /\ pc' = "normalize"
    /\ UNCHANGED <<uploaded, use_demo, argsort_ties, rename_dict, missing,
                   st_error, st_warning, metrics, max_idx, min_idx, exc,
                   run, prev>>

\* l.76-83: build rename_dict and rename the columns
Normalize ==
    /\ pc = "normalize"
    /\ rename_dict' = BuildRenameDict(df.columns)
    /\ df' = Frame(Rename(df.columns, rename_dict'), df.rows)
    /\ pc' = "required"
    /\ UNCHANGED <<uploaded, use_demo, argsort_ties, cache, missing, st_error,
                   st_warning, metrics, max_idx, min_idx, exc, run, prev>>

\* l.84-88: the required-column check; st.error and st.stop when one is missing
CheckRequired ==
    /\ pc = "required"
    /\ missing' = MissingFrom(required, df.columns)
    /\ IF missing' # <<>>
       THEN /\ st_error' = missing'
            /\ pc' = "stopped"
       ELSE /\ UNCHANGED st_error
            /\ pc' = "to_datetime"
    /\ UNCHANGED <<uploaded, use_demo, argsort_ties, cache, df, rename_dict,
                   st_warning, metrics, max_idx, min_idx, exc, run, prev>>

\* l.91-94: parse the month column.  With two columns labelled "wol",
\* df["wol"] is a DataFrame, pd.to_datetime raises, and the except clause
\* leaves df as it was.
ToDatetime ==
    /\ pc = "to_datetime"
    /\ IF Cardinality(ColIdx(df, "wol")) = 1
       THEN df' = SetCol(df, "wol",
                         [i \in DOMAIN df.rows |-> to_datetime(Series(df, "wol")[i])])
       ELSE UNCHANGED df
    /\ pc' = "isna"
    /\ UNCHANGED <<uploaded, use_demo, argsort_ties, cache, rename_dict,
                   missing, st_error, st_warning, metrics, max_idx, min_idx,
                   exc, run, prev>>

\* l.96-97: the warning.  With two columns labelled "wol", .isna().any() is
\* a Series of two booleans and `if` on it raises ValueError.
WarnIfNa ==
    /\ pc = "isna"
    /\ IF Cardinality(ColIdx(df, "wol")) # 1
       THEN /\ Raise("ValueError")
            /\ UNCHANGED st_warning
       ELSE /\ st_warning' = (\E i \in DOMAIN df.rows : isna(Series(df, "wol")[i]))
            /\ pc' = "sort"
            /\ UNCHANGED exc
    /\ UNCHANGED <<uploaded, use_demo, argsort_ties, cache, df, rename_dict,
                   missing, st_error, metrics, max_idx, min_idx, run, prev>>

\* l.99
SortValues ==
    /\ pc = "sort"
    /\ df' = sort_values(df, "wol", argsort_ties)
    /\ pc' = "delta"
    /\ UNCHANGED <<uploaded, use_demo, argsort_ties, cache, rename_dict,
                   missing, st_error, st_warning, metrics, max_idx, min_idx,
                   exc, run, prev>>

\* l.102: df["jeunggamaek"] = revenue - prior year.  Two columns under one
\* of the labels make an operand a DataFrame and the assignment raises
\* ValueError; text in either column (an object column of str) makes the
\* subtraction raise TypeError.
Delta ==
    /\ pc = "delta"
    /\ IF \/ Cardinality(ColIdx(df, "maechulaek")) # 1
          \/ Cardinality(ColIdx(df, "jeonnyeondongwol")) # 1
       THEN /\ Raise("ValueError")
            /\ UNCHANGED df
       ELSE IF \/ ~IsNumeric(Series(df, "maechulaek"))
               \/ ~IsNumeric(Series(df, "jeonnyeondongwol"))
       THEN /\ Raise("TypeError")
            /\ UNCHANGED df
       ELSE /\ df' = SetCol(df, "jeunggamaek",
                            subtract(Series(df, "maechulaek"),
                                     Series(df, "jeonnyeondongwol")))
            /\ pc' = "cumsum"
            /\ UNCHANGED exc
    /\ UNCHANGED <<uploaded, use_demo, argsort_ties, cache, rename_dict,
                   missing, st_error, st_warning, metrics, max_idx, min_idx,
                   run, prev>>

\* l.103
CumSum ==
    /\ pc = "cumsum"
    /\ df' = SetCol(df, "nujeokmaechul", cumsum(Series(df, "maechulaek")))
    /\ pc' = "label"
    /\ UNCHANGED <<uploaded, use_demo, argsort_ties, cache, rename_dict,
                   missing, st_error, st_warning, metrics, max_idx, min_idx,
                   exc, run, prev>>

\* l.106
Label ==
    /\ pc = "label"
    /\ df' = SetCol(df, "wollabel",
                    [i \in DOMAIN df.rows |-> strftime(Series(df, "wol")[i])])
    /\ pc' = "kpi_total"
    /\ UNCHANGED <<uploaded, use_demo, argsort_ties, cache, rename_dict,
                   missing, st_error, st_warning, metrics, max_idx, min_idx,
                   exc, run, prev>>

\* l.112-113: total revenue
KpiTotal ==
    /\ pc = "kpi_total"
    /\ metrics' = Append(metrics,
                         Metric("total",
                                SumN(Series(df, "maechulaek"), Len(df.rows)),
                                1, ""))
    /\ pc' = "kpi_mean"
    /\ UNCHANGED <<uploaded, use_demo, argsort_ties, cache, df, rename_dict,
                   missing, st_error, st_warning, max_idx, min_idx, exc,
                   run, prev>>

\* l.114-115: mean of the yoy column, as sum over count (count 0: nan).
\* Text in the column makes mean() raise TypeError; two columns under the
\* label make it a Series, which the format spec of the f-string rejects.
KpiMean ==
    /\ pc = "kpi_mean"
    /\ IF \/ Cardinality(ColIdx(df, "jeunggamryul")) # 1
          \/ ~IsNumeric(Series(df, "jeunggamryul"))
       THEN /\ Raise("TypeError")
            /\ UNCHANGED metrics
       ELSE /\ metrics' = Append(metrics,
                                 Metric("mean",
                                        SumN(Series(df, "jeunggamryul"), Len(df.rows)),
                                        Len(df.rows), ""))
            /\ pc' = "kpi_max"
            /\ UNCHANGED exc
    /\ UNCHANGED <<uploaded, use_demo, argsort_ties, cache, df, rename_dict,
                   missing, st_error, st_warning, max_idx, min_idx, run, prev>>

\* l.116-118: idxmax raises ValueError on an empty column
KpiMax ==
    /\ pc = "kpi_max"
    /\ IF df.rows = <<>>
       THEN /\ Raise("ValueError")
            /\ UNCHANGED <<max_idx, metrics>>
       ELSE /\ max_idx' = idxmax(Series(df, "maechulaek"))
            /\ metrics' = Append(metrics,
                                 Metric("max", loc(df, max_idx', "maechulaek").n, 1,
                                        loc(df, max_idx', "wollabel").s))
            /\ pc' = "kpi_min"
            /\ UNCHANGED exc
    /\ UNCHANGED <<uploaded, use_demo, argsort_ties, cache, df, rename_dict,
                   missing, st_error, st_warning, min_idx, run, prev>>

\* l.119-121
KpiMin ==
    /\ pc = "kpi_min"
    /\ IF df.rows = <<>>
       THEN /\ Raise("ValueError")
            /\ UNCHANGED <<min_idx, metrics>>
       ELSE /\ min_idx' = idxmin(Series(df, "maechulaek"))
            /\ metrics' = Append(metrics,
                                 Metric("min", loc(df, min_idx', "maechulaek").n, 1,
                                        loc(df, min_idx', "wollabel").s))
            /\ pc' = "done"
            /\ UNCHANGED exc
    /\ UNCHANGED <<uploaded, use_demo, argsort_ties, cache, df, rename_dict,
                   missing, st_error, st_warning, max_idx, run, prev>>

\* Streamlit runs the script again from the top with the same widget values:
\* every module-level name is rebound by the new run, the page is cleared,
\* and only the st.cache_data store survives
Rerun ==
    /\ pc \in {"done", "stopped", "crashed"}
    /\ run < MaxRuns
    /\ prev' = <<Outcome>>
    /\ run' = run + 1
    /\ pc' = "load"
    /\ df' = NoFrame
    /\ rename_dict' = {}
    /\ missing' = <<>>
    /\ st_error' = <<>>
    /\ st_warning' = FALSE
    /\ metrics' = <<>>
    /\ max_idx' = -1
    /\ min_idx' = -1
    /\ exc' = ""
    /\ UNCHANGED <<uploaded, use_demo, argsort_ties, cache>>

Next ==
    \/ Load
    \/ Normalize
    \/ CheckRequired
    \/ ToDatetime
    \/ WarnIfNa
    \/ SortValues
    \/ Delta
    \/ CumSum
    \/ Label
    \/ KpiTotal
    \/ KpiMean
    \/ KpiMax
    \/ KpiMin
    \/ Rerun

Spec == Init /\ [][Next]_vars


\* =================================================================== claims
\* positions of the script, by what has already run
AfterNormalize == pc \notin {"load", "normalize"}

AfterCheck == pc \notin {"load", "normalize", "required"}

\* the sort of l.99 has run: every later position, and a crash that is not
\* the one of l.96
AfterSort ==
    \/ pc \in {"delta", "cumsum", "label", "kpi_total", "kpi_mean",
               "kpi_max", "kpi_min", "done"}
    \/ pc = "crashed" /\ Cardinality(ColIdx(df, "wol")) = 1

HasColumn(name) == ColIdx(df, name) # {}

\* column j of the raw table is a column for the field std
Matches(c, std) == \E a \in Range(colmap[std]) : strip(c) = <<a>>

\* the required fields no raw column stands for
Unmatched == { std \in Range(required) :
                 \A j \in DOMAIN RawInput.columns :
                    ~Matches(RawInput.columns[j], std) }

RECURSIVE SeqSum(_)
SeqSum(q) == IF q = <<>> THEN 0 ELSE Head(q) + SeqSum(Tail(q))

Revenue == [i \in DOMAIN df.rows |-> Series(df, "maechulaek")[i].n]

\* ---------------------------------------------------------------------
\* C1: when some required field has no raw column whose stripped label is
\* in the field's list, the run ends at the required-column check with an
\* error that lists exactly the unmatched fields, and nothing after the
\* check has happened: the rows are the raw rows (not parsed, not sorted),
\* no column was added, no warning and no metric was shown, nothing raised.
C1_MissingColumnsExact ==
    (Unmatched # {} /\ AfterCheck) =>
        /\ pc = "stopped"
        /\ Range(st_error) = Unmatched
        /\ Len(st_error) = Cardinality(Unmatched)
        /\ df.rows = RawInput.rows
        /\ Len(df.columns) = Len(RawInput.columns)
        /\ ~st_warning
        /\ metrics = <<>>
        /\ exc = ""

C1_Witness ==
    /\ pc = "stopped"
    /\ Len(st_error) = 2
    /\ \E j \in DOMAIN df.columns : df.columns[j] = <<"wol">>

\* ---------------------------------------------------------------------
\* C2 as stated: with every field present under one of the names the claim
\* lists - for the period that includes the name "period" itself - padded
\* or not, the renamed table has the four canonical names and the run does
\* not stop with missing columns.
ClaimedNames(std) ==
    Range(colmap[std]) \cup (IF std = "wol" THEN {"period"} ELSE {})

C2_AsClaimed ==
    (/\ AfterNormalize
     /\ \A std \in Range(required) :
           \E j \in DOMAIN RawInput.columns :
              \E a \in ClaimedNames(std) : strip(RawInput.columns[j]) = <<a>>)
    => /\ \A std \in Range(required) : HasColumn(std)
       /\ pc # "stopped"

\* C2 amended: the same with the names of colmap only (for the period: wol,
\* month, Month).  When each field has exactly one such column, each
\* canonical name labels exactly one column.
C2_SynonymsResolve ==
    (AfterNormalize /\ Unmatched = {}) =>
        /\ \A std \in Range(required) : HasColumn(std)
        /\ pc # "stopped"
        /\ (\A std \in Range(required) :
               Cardinality({j \in DOMAIN RawInput.columns :
                               Matches(RawInput.columns[j], std)}) = 1)
           => \A std \in Range(required) : Cardinality(ColIdx(df, std)) = 1

C2_Witness ==
    /\ pc = "to_datetime"
    /\ ~use_demo /\ uploaded # <<>>
    /\ RawInput.columns = << <<SP, "month">>, <<"Revenue", SP>>,
                             <<SP, "PY", SP>>, <<"YoY", SP>> >>

\* ---------------------------------------------------------------------
\* C9: after the rename, the column at each position carries the canonical
\* name of a field exactly when it is the first raw column, in column
\* order, whose stripped label is in that field's list; every other column
\* keeps its raw label.
C9_FirstMatchWins ==
    AfterNormalize =>
        /\ Len(df.columns) >= Len(RawInput.columns)
        /\ \A j \in DOMAIN RawInput.columns :
              LET raw == RawInput.columns
                  firstFor == { std \in Range(required) :
                                  /\ Matches(raw[j], std)
                                  /\ \A k \in 1..(j - 1) : ~Matches(raw[k], std) }
              IN  IF firstFor # {}
                  THEN \E std \in firstFor : df.columns[j] = <<std>>
                  ELSE df.columns[j] = raw[j]

C9_Witness ==
    /\ pc = "required"
    /\ Len(df.columns) >= 2
    /\ RawInput.columns[1] = <<"Month">>
    /\ RawInput.columns[2] = <<"month">>
    /\ df.columns[1] = <<"wol">>
    /\ df.columns[2] = <<"month">>

\* ---------------------------------------------------------------------
\* C10: after the rename, each canonical name labels at most one column.
C10_CanonicalUnique ==
    AfterNormalize =>
        \A std \in Range(required) : Cardinality(ColIdx(df, std)) <= 1


\* the month column of the sorted frame: text of the raw table parsed
Period == Series(df, "wol")

\* row i of the raw table with its month parsed, which is what the sort
\* moves around
ParsedRaw(i) ==
    [RawInput.rows[i] EXCEPT ![TheCol(df, "wol")] = to_datetime(@)]

\* row p of df without the derived columns
Original(p) == SubSeq(df.rows[p], 1, Len(RawInput.columns))

InPeriodOrder ==
    \A i, j \in DOMAIN df.rows :
        i < j => /\ (~isna(Period[i]) /\ ~isna(Period[j]))
                       => Period[i].n <= Period[j].n
                 /\ isna(Period[i]) => isna(Period[j])

\* ---------------------------------------------------------------------
\* C3: once the cumulative column exists, its value at each position is
\* the sum of the revenue column over the positions up to and including it,
\* in the order of df at that time, which is the order by month.
C3_PrefixSumAfterSort ==
    HasColumn("nujeokmaechul") =>
        /\ InPeriodOrder
        /\ \A i \in DOMAIN df.rows :
              Series(df, "nujeokmaechul")[i].n = SeqSum(SubSeq(Revenue, 1, i))

\* the months arrive out of order, so the running sum over the raw order
\* (30, 40, 60) differs from the one over the sorted order
C3_Witness ==
    /\ pc = "done"
    /\ [i \in DOMAIN RawInput.rows |-> RawInput.rows[i][2].n] = <<30, 10, 20>>
    /\ [i \in DOMAIN df.rows |-> Series(df, "nujeokmaechul")[i].n] = <<10, 30, 60>>

\* ---------------------------------------------------------------------
\* C4: after the sort, the rows are the raw rows (months parsed) in another
\* order: each row occurs as often as in the raw table, the rows with a
\* parsed month are in non-decreasing month order, and no row with an
\* unparsed month precedes any other row.  The months 2024-03, 2024-01,
\* 2024-02 come out labelled 2024-01, 2024-02, 2024-03.
C4_SortedPermutation ==
    AfterSort =>
        /\ Len(df.rows) = Len(RawInput.rows)
        /\ \A p \in DOMAIN df.rows :
              Cardinality({q \in DOMAIN df.rows : Original(q) = Original(p)})
                = Cardinality({i \in DOMAIN RawInput.rows :
                                   ParsedRaw(i) = Original(p)})
        /\ InPeriodOrder
        /\ (/\ HasColumn("wollabel")
            /\ [i \in DOMAIN RawInput.rows |->
                   RawInput.rows[i][TheCol(df, "wol")].s]
                 = <<"2024-03", "2024-01", "2024-02">>)
           => [i \in DOMAIN df.rows |-> Series(df, "wollabel")[i].s]
                 = <<"2024-01", "2024-02", "2024-03">>

C4_Witness ==
    /\ pc = "done"
    /\ [i \in DOMAIN RawInput.rows |-> RawInput.rows[i][1].s]
          = <<"2024-02", "not-a-date", "2024-01">>
    /\ [i \in DOMAIN df.rows |-> Period[i].t] = <<"ts", "ts", "NaT">>
    /\ [i \in DOMAIN df.rows |-> Revenue[i]] = <<10, 20, 30>>

\* ---------------------------------------------------------------------
\* C5 as stated: past l.96 the warning is on the page exactly when some
\* month of the raw table did not parse; a run that showed the warning is
\* not ended by an exception; and a finished run has as many rows as the
\* raw table.
C5_WarningThenCompletion ==
    /\ AfterSort =>
          (st_warning <=> \E i \in DOMAIN RawInput.rows :
                             isna(ParsedRaw(i)[TheCol(df, "wol")]))
    /\ st_warning => pc # "crashed"
    /\ pc = "done" => Len(df.rows) = Len(RawInput.rows)

\* ---------------------------------------------------------------------
\* C6 as stated: a run whose raw table has a column for each of the four
\* fields is never ended by an exception.  (Stated for the tables where no
\* canonical name labels two columns, which are a case of their own, C10.)
C6_NoOtherAbort ==
    (/\ Unmatched = {}
     /\ \A std \in Range(required) : Cardinality(ColIdx(df, std)) <= 1)
    => pc # "crashed"

\* ---------------------------------------------------------------------
\* C7: the row chosen for the maximum-revenue card is the first row of the
\* sorted frame whose revenue is the maximum, the row chosen for the
\* minimum-revenue card the first whose revenue is the minimum, and the
\* card shows that row's label and revenue.
C7_FirstExtremeWins ==
    /\ pc \in {"kpi_min", "done"} =>
          /\ max_idx + 1 \in DOMAIN df.rows
          /\ \A j \in DOMAIN df.rows : Revenue[j] <= Revenue[max_idx + 1]
          /\ \A j \in 1..max_idx : Revenue[j] # Revenue[max_idx + 1]
          /\ metrics[3].n = Revenue[max_idx + 1]
          /\ metrics[3].label = Series(df, "wollabel")[max_idx + 1].s
    /\ pc = "done" =>
          /\ min_idx + 1 \in DOMAIN df.rows
          /\ \A j \in DOMAIN df.rows : Revenue[j] >= Revenue[min_idx + 1]
          /\ \A j \in 1..min_idx : Revenue[j] # Revenue[min_idx + 1]
          /\ metrics[4].n = Revenue[min_idx + 1]
          /\ metrics[4].label = Series(df, "wollabel")[min_idx + 1].s

\* every row holds the same revenue, which is both the maximum and the
\* minimum: the first row is chosen for both cards
C7_Witness ==
    /\ pc = "done"
    /\ Revenue = <<10, 10>>
    /\ max_idx = 0
    /\ min_idx = 0

====
